---- MODULE Spec2Model ----
(***************************************************************************)
(* Model of restart_notready.py: one run of main(), which validates the    *)
(* required files, constructs a NodeRebooter (identity map, Kubernetes     *)
(* client), lists the NotReady nodes and resets the VM behind each of      *)
(* them over SSH, retrying each reset with tenacity.                       *)
(***************************************************************************)
EXTENDS Integers, Sequences, FiniteSets, TLC

\* ---------------------------------------------------------------- bounds
MaxNodes == 2        \* nodes in one API response
MaxConds == 2        \* conditions per node when get_notready_nodes is checked alone
MaxJitter == 1       \* how much longer than requested a sleep may last

\* ------------------------------------------------------ program constants
StopAfterAttempt == 3
WaitFixed == 10

\* Node names are unique in a cluster; the i-th node of a response is NodeNames[i].
NodeNames == <<"A", "B", "C", "D">>
Names == {NodeNames[i] : i \in 1..MaxNodes}
CondStatuses == {"True", "False", "Unknown"}
Keys == {"esxi_host", "vmid"}
RequiredFiles == {"/kube/config", "/config/node_vm_map.json", "/secrets/id_rsa"}

SeqsUpTo(S, n) == UNION {[1..k -> S] : k \in 0..n}

\* A V1NodeCondition as far as the code reads it: the Ready condition with
\* any status, and a condition of another type whose status is "False".
Conditions ==
    [type : {"Ready"}, status : CondStatuses]
    \cup [type : {"MemoryPressure"}, status : {"False"}]

\* node.status.conditions; the client library gives None for an absent list.
NodeStatuses(mc) ==
    [conditions_is_none : {FALSE}, conditions : SeqsUpTo(Conditions, mc)]
    \cup [conditions_is_none : {TRUE}, conditions : {<<>>}]

\* The node statuses of the whole-run specification: no condition list, an
\* empty one, or the Ready condition alone with status False or True.
MainStatuses ==
    {st \in NodeStatuses(1) :
        \A k \in DOMAIN st.conditions :
            st.conditions[k].type = "Ready" /\ st.conditions[k].status # "Unknown"}

\* What list_node() can answer: nodes.items, each with node.metadata.name
\* and node.status.conditions drawn from statuses.
ApiItems(statuses) ==
    {[i \in DOMAIN st |-> [name |-> NodeNames[i],
                           conditions_is_none |-> st[i].conditions_is_none,
                           conditions |-> st[i].conditions]] :
        st \in SeqsUpTo(statuses, MaxNodes)}

\* One value of the mapping file: a JSON object holding some of the keys.
VmInfo(K) == [k \in K |-> IF k = "esxi_host" THEN "10.0.0.5" ELSE "42"]
VmInfos == {VmInfo(K) : K \in (SUBSET Keys) \ {{}}}

\* What json.load() can return for the mapping file.
NodeVmMaps == UNION {[D -> VmInfos] : D \in SUBSET Names}

VARIABLES
    pc,              \* position of the single thread of control
    exit_status,     \* "running", "success" (return from main) or "failure" (sys.exit(1))
    fatal_at,        \* where the run was when sys.exit(1) was reached, or "none"
    node_vm_map,     \* self.node_vm_map
    k8s_client,      \* self.k8s_client has been created
    nodes,           \* nodes.items, local to get_notready_nodes
    listed,          \* get_notready_nodes has returned its list to main
    notready_nodes,  \* the list main passes to reboot_notready_nodes
    idx,             \* position of the for loop of reboot_notready_nodes
    rebooted_count,  \* rebooted_count
    attempt_number,  \* tenacity's attempt counter of the current call
    result,          \* "none", "ok" or "exc": how the current attempt is ending
    cause,           \* which statement of the attempt raised, or "none"
    ssh_client,      \* the attempt's SSHClient: "none", "unconnected", "connected", "closed"
    open_sessions,   \* SSH sessions connected and not closed
    since_fail,      \* time slept since the previous attempt of this call failed
    summaries,       \* number of "Reboot process completed" lines logged
    summary,         \* the <<rebooted_count, len(notready_nodes)>> of that line
    outcome,         \* per list position: what happened to the entry
    invoked          \* per list position: invocations of reboot_vm_on_esxi's body

vars == <<pc, exit_status, fatal_at, node_vm_map, k8s_client, nodes, listed, notready_nodes, idx,
          rebooted_count, attempt_number, result, cause, ssh_client, open_sessions,
          since_fail, summaries, summary, outcome, invoked>>

mainVars == <<node_vm_map, k8s_client, nodes, listed, notready_nodes>>
loopVars == <<idx, rebooted_count, summaries, summary, outcome, invoked>>
callVars == <<attempt_number, result, cause, ssh_client, open_sessions, since_fail>>

\* ------------------------------------------------------- get_notready_nodes

\* Variant: the status is tested without looking at the condition's type.
RECURSIVE ScanConditionsAnyType(_, _)
ScanConditionsAnyType(conditions, k) ==
    IF k > Len(conditions) THEN FALSE
    ELSE IF conditions[k].status = "False"
         THEN TRUE
         ELSE ScanConditionsAnyType(conditions, k + 1)

\* Variant: the loop ends at the first condition of type Ready, whatever
\* its status.
RECURSIVE ScanConditionsFirstReady(_, _)
ScanConditionsFirstReady(conditions, k) ==
    IF k > Len(conditions) THEN FALSE
    ELSE IF conditions[k].type = "Ready"
         THEN conditions[k].status = "False"
         ELSE ScanConditionsFirstReady(conditions, k + 1)

\* The inner for loop with its break: TRUE iff the node name is appended.
RECURSIVE ScanConditions(_, _)
ScanConditions(conditions, k) ==
    IF k > Len(conditions) THEN FALSE
    ELSE IF conditions[k].type = "Ready" /\ conditions[k].status = "False"
         THEN TRUE
         ELSE ScanConditions(conditions, k + 1)

\* The outer for loop over nodes.items, building notready_nodes.
RECURSIVE FilterNotReady(_, _)
FilterNotReady(items, i) ==
    IF i > Len(items) THEN <<>>
    ELSE IF ScanConditions(items[i].conditions, 1)
         THEN <<items[i].name>> \o FilterNotReady(items, i + 1)
         ELSE FilterNotReady(items, i + 1)

\* Iterating over None raises TypeError, which the except clause re-raises.
IterationRaises(items) == \E i \in 1..Len(items) : items[i].conditions_is_none

\* -------------------------------------------------------------------- Init
Init ==
    /\ pc = "validate"
    /\ exit_status = "running"
    /\ fatal_at = "none"
    /\ node_vm_map = <<>>
    /\ k8s_client = FALSE
    /\ nodes = <<>>
    /\ listed = FALSE
    /\ notready_nodes = <<>>
    /\ idx = 0
    /\ rebooted_count = 0
    /\ attempt_number = 0
    /\ result = "none"
    /\ cause = "none"
    /\ ssh_client = "none"
    /\ open_sessions = 0
    /\ since_fail = 0
    /\ summaries = 0
    /\ summary = <<>>
    /\ outcome = <<>>
    /\ invoked = <<>>

\* sys.exit(1): from the file validation or from main's except clause.
Fatal ==
    /\ pc' = "done"
    /\ exit_status' = "failure"
    /\ fatal_at' = pc

\* ------------------------------------------------------------------- main

\* The loop over required_files finds one missing.
ValidateFilesMissing ==
    /\ pc = "validate"
    /\ \E exists \in [RequiredFiles -> BOOLEAN] :
          \E f \in RequiredFiles : ~exists[f]
    /\ Fatal
    /\ UNCHANGED <<mainVars, loopVars, callVars>>

ValidateFilesOk ==
    /\ pc = "validate"
    /\ \E exists \in [RequiredFiles -> BOOLEAN] :
          \A f \in RequiredFiles : exists[f]
    /\ pc' = "load_map"
    /\ UNCHANGED <<exit_status, fatal_at, mainVars, loopVars, callVars>>

\* _load_node_vm_map returns what json.load read.
LoadNodeVmMapOk ==
    /\ pc = "load_map"
    /\ \E m \in NodeVmMaps : node_vm_map' = m
    /\ pc' = "load_kube"
    /\ UNCHANGED <<exit_status, fatal_at, k8s_client, nodes, listed, notready_nodes, loopVars, callVars>>

\* open() or json.load() raises; logged, re-raised, caught by main.
LoadNodeVmMapFails ==
    /\ pc = "load_map"
    /\ Fatal
    /\ UNCHANGED <<mainVars, loopVars, callVars>>

\* Variant: __init__ creates the Kubernetes client before it loads the map.
LoadKubeConfigBeforeMap ==
    /\ pc \in {"load_map", "load_kube"}
    /\ pc = "load_map" => ~k8s_client
    /\ k8s_client' = TRUE
    /\ pc' = (IF pc = "load_map" THEN "load_map" ELSE "list_node")
    /\ UNCHANGED <<exit_status, fatal_at, node_vm_map, nodes, listed, notready_nodes, loopVars, callVars>>

LoadKubeConfigOk ==
    /\ pc = "load_kube"
    /\ k8s_client' = TRUE
    /\ pc' = "list_node"
    /\ UNCHANGED <<exit_status, fatal_at, node_vm_map, nodes, listed, notready_nodes, loopVars, callVars>>

LoadKubeConfigFails ==
    /\ pc = "load_kube"
    /\ Fatal
    /\ UNCHANGED <<mainVars, loopVars, callVars>>

\* self.k8s_client.list_node() raises; logged, re-raised, caught by main.
ListNodeFails ==
    /\ pc = "list_node"
    /\ Fatal
    /\ UNCHANGED <<mainVars, loopVars, callVars>>

\* list_node() answers and the two loops run to the return statement.
GetNotReadyNodesReturns(statuses) ==
    /\ pc = "list_node"
    /\ \E items \in ApiItems(statuses) :
          /\ ~IterationRaises(items)
          /\ nodes' = items
          /\ notready_nodes' = FilterNotReady(items, 1)
    /\ listed' = TRUE
    /\ pc' = "listed"
    /\ UNCHANGED <<exit_status, fatal_at, node_vm_map, k8s_client, loopVars, callVars>>

\* list_node() answers and the inner loop raises on a node without a
\* condition list; logged, re-raised, caught by main.
GetNotReadyNodesRaises(statuses) ==
    /\ pc = "list_node"
    /\ \E items \in ApiItems(statuses) : IterationRaises(items) /\ nodes' = items
    /\ Fatal
    /\ UNCHANGED <<node_vm_map, k8s_client, listed, notready_nodes, loopVars, callVars>>

\* Variant: the empty list also logs a summary line before returning.
MainNoNotReadyWithSummary ==
    /\ pc = "listed"
    /\ notready_nodes = <<>>
    /\ nodes' = <<>>
    /\ summaries' = summaries + 1
    /\ summary' = <<0, 0>>
    /\ pc' = "done"
    /\ exit_status' = "success"
    /\ UNCHANGED fatal_at
    /\ UNCHANGED <<node_vm_map, k8s_client, listed, notready_nodes, idx, rebooted_count,
                   outcome, invoked, callVars>>

\* "if not notready_nodes: ... return"
MainNoNotReady ==
    /\ pc = "listed"
    /\ notready_nodes = <<>>
    /\ nodes' = <<>>
    /\ pc' = "done"
    /\ exit_status' = "success"
    /\ UNCHANGED fatal_at
    /\ UNCHANGED <<node_vm_map, k8s_client, listed, notready_nodes, loopVars, callVars>>

\* main calls reboot_notready_nodes, which sets rebooted_count = 0 and
\* enters its for loop.
MainCallsReboot ==
    /\ pc = "listed"
    /\ notready_nodes # <<>>
    /\ nodes' = <<>>
    /\ rebooted_count' = 0
    /\ idx' = 1
    /\ outcome' = [i \in 1..Len(notready_nodes) |-> "pending"]
    /\ invoked' = [i \in 1..Len(notready_nodes) |-> 0]
    /\ pc' = "loop"
    /\ UNCHANGED <<exit_status, fatal_at, node_vm_map, k8s_client, listed, notready_nodes,
                   summaries, summary, callVars>>

\* ------------------------------------------------- reboot_notready_nodes

InLoop == pc = "loop" /\ idx <= Len(notready_nodes)
node_name == notready_nodes[idx]

\* Variant: the membership test is missing and the call is made anyway.
SkipUnmappedCalls ==
    /\ InLoop
    /\ node_name \notin DOMAIN node_vm_map
    /\ attempt_number' = 1
    /\ since_fail' = 0
    /\ result' = "none"
    /\ cause' = "none"
    /\ pc' = "call"
    /\ UNCHANGED <<exit_status, fatal_at, mainVars, loopVars, ssh_client, open_sessions>>

\* Variant: break instead of continue.
SkipUnmappedBreaks ==
    /\ InLoop
    /\ node_name \notin DOMAIN node_vm_map
    /\ outcome' = [outcome EXCEPT ![idx] = "skipped"]
    /\ idx' = Len(notready_nodes) + 1
    /\ UNCHANGED <<pc, exit_status, fatal_at, mainVars, rebooted_count, summaries, summary,
                   invoked, callVars>>

\* "if node_name not in self.node_vm_map": warning, continue.
SkipUnmapped ==
    /\ InLoop
    /\ node_name \notin DOMAIN node_vm_map
    /\ outcome' = [outcome EXCEPT ![idx] = "skipped"]
    /\ idx' = idx + 1
    /\ UNCHANGED <<pc, exit_status, fatal_at, mainVars, rebooted_count, summaries, summary,
                   invoked, callVars>>

\* vm_info["esxi_host"] or vm_info["vmid"] raises KeyError.  The lookups are
\* outside the try block, so the error leaves reboot_notready_nodes and is
\* caught by main.
ResolveRaises ==
    /\ InLoop
    /\ node_name \in DOMAIN node_vm_map
    /\ ~(Keys \subseteq DOMAIN node_vm_map[node_name])
    /\ outcome' = [outcome EXCEPT ![idx] = "keyerror"]
    /\ Fatal
    /\ UNCHANGED <<mainVars, idx, rebooted_count, summaries, summary, invoked, callVars>>

\* Both lookups succeed; the decorated reboot_vm_on_esxi is called.
ResolveOk ==
    /\ InLoop
    /\ node_name \in DOMAIN node_vm_map
    /\ Keys \subseteq DOMAIN node_vm_map[node_name]
    /\ attempt_number' = 1
    /\ since_fail' = 0
    /\ result' = "none"
    /\ cause' = "none"
    /\ pc' = "call"
    /\ UNCHANGED <<exit_status, fatal_at, mainVars, loopVars, ssh_client, open_sessions>>

\* Variant: the summary counts only the entries that were attempted.
LogSummaryAttemptedOnly ==
    /\ pc = "loop"
    /\ idx > Len(notready_nodes)
    /\ summaries' = summaries + 1
    /\ summary' = <<rebooted_count,
                    Cardinality({i \in DOMAIN invoked : invoked[i] > 0})>>
    /\ pc' = "completed"
    /\ UNCHANGED <<exit_status, fatal_at, mainVars, idx, rebooted_count, outcome, invoked, callVars>>

\* The loop is over: the summary line is logged.
LogSummary ==
    /\ pc = "loop"
    /\ idx > Len(notready_nodes)
    /\ summaries' = summaries + 1
    /\ summary' = <<rebooted_count, Len(notready_nodes)>>
    /\ pc' = "completed"
    /\ UNCHANGED <<exit_status, fatal_at, mainVars, idx, rebooted_count, outcome, invoked, callVars>>

\* Back in main: "completed successfully", main returns.
MainCompleted ==
    /\ pc = "completed"
    /\ pc' = "done"
    /\ exit_status' = "success"
    /\ UNCHANGED fatal_at
    /\ UNCHANGED <<mainVars, loopVars, callVars>>

\* ----------------------------------------------------- reboot_vm_on_esxi

\* tenacity invokes the body: a fresh SSHClient is created.
AttemptBegin ==
    /\ pc = "call"
    /\ invoked' = [invoked EXCEPT ![idx] = @ + 1]
    /\ result' = "none"
    /\ cause' = "none"
    /\ ssh_client' = "unconnected"
    /\ pc' = "key"
    /\ UNCHANGED <<exit_status, fatal_at, mainVars, idx, rebooted_count, summaries, summary,
                   outcome, attempt_number, open_sessions, since_fail>>

\* An exception inside the try block: logged, re-raised, finally runs.
Raise(c) ==
    /\ result' = "exc"
    /\ cause' = c
    /\ pc' = "finally"

LoadKeyOk ==
    /\ pc = "key"
    /\ pc' = "connect"
    /\ UNCHANGED <<exit_status, fatal_at, mainVars, loopVars, callVars>>

LoadKeyFails ==
    /\ pc = "key"
    /\ Raise("key")
    /\ UNCHANGED <<exit_status, fatal_at, mainVars, loopVars, attempt_number, ssh_client, open_sessions, since_fail>>

ConnectOk ==
    /\ pc = "connect"
    /\ ssh_client' = "connected"
    /\ open_sessions' = open_sessions + 1
    /\ pc' = "exec"
    /\ UNCHANGED <<exit_status, fatal_at, mainVars, loopVars, attempt_number, result, cause, since_fail>>

ConnectFails ==
    /\ pc = "connect"
    /\ Raise("connect")
    /\ UNCHANGED <<exit_status, fatal_at, mainVars, loopVars, attempt_number, ssh_client, open_sessions, since_fail>>

\* connect() raises after the transport was started (authentication
\* failure): the client holds an open transport when the exception leaves.
ConnectAuthFails ==
    /\ pc = "connect"
    /\ ssh_client' = "connected"
    /\ open_sessions' = open_sessions + 1
    /\ Raise("auth")
    /\ UNCHANGED <<exit_status, fatal_at, mainVars, loopVars, attempt_number, since_fail>>

\* exec_command or recv_exit_status raises.
ExecCommandFails ==
    /\ pc = "exec"
    /\ Raise("exec")
    /\ UNCHANGED <<exit_status, fatal_at, mainVars, loopVars, attempt_number, ssh_client, open_sessions, since_fail>>

\* exit_code == 0: return True.
ExecExitZero ==
    /\ pc = "exec"
    /\ result' = "ok"
    /\ cause' = "none"
    /\ pc' = "finally"
    /\ UNCHANGED <<exit_status, fatal_at, mainVars, loopVars, attempt_number, ssh_client, open_sessions, since_fail>>

\* exit_code != 0: raise Exception("VM reboot failed ...").
ExecExitNonZero ==
    /\ pc = "exec"
    /\ Raise("exit_status")
    /\ UNCHANGED <<exit_status, fatal_at, mainVars, loopVars, attempt_number, ssh_client, open_sessions, since_fail>>

\* Variant: close() is called on the success path only, not in a finally.
CloseOnSuccessOnly ==
    /\ pc = "finally"
    /\ IF ssh_client = "connected" /\ result = "ok"
       THEN ssh_client' = "closed" /\ open_sessions' = open_sessions - 1
       ELSE UNCHANGED <<ssh_client, open_sessions>>
    /\ pc' = "retry"
    /\ UNCHANGED <<exit_status, fatal_at, mainVars, loopVars, attempt_number, result, cause, since_fail>>

\* finally: ssh_client.close(), which does nothing on a client that never
\* connected.
Finally ==
    /\ pc = "finally"
    /\ IF ssh_client = "connected"
       THEN ssh_client' = "closed" /\ open_sessions' = open_sessions - 1
       ELSE UNCHANGED <<ssh_client, open_sessions>>
    /\ pc' = "retry"
    /\ UNCHANGED <<exit_status, fatal_at, mainVars, loopVars, attempt_number, result, cause, since_fail>>

\* The call is over: its locals and tenacity's state are gone.
EndCall ==
    /\ attempt_number' = 0
    /\ result' = "none"
    /\ cause' = "none"
    /\ ssh_client' = "none"
    /\ since_fail' = 0
    /\ UNCHANGED open_sessions

\* Variant: tenacity also retries on the returned value, so a call that
\* succeeded before the last attempt is made again.
CallSucceedsRetried ==
    /\ pc = "retry"
    /\ result = "ok"
    /\ IF attempt_number < StopAfterAttempt
       THEN /\ attempt_number' = attempt_number + 1
            /\ since_fail' = WaitFixed
            /\ pc' = "call"
            /\ UNCHANGED <<rebooted_count, outcome, idx>>
       ELSE /\ rebooted_count' = rebooted_count + 1
            /\ outcome' = [outcome EXCEPT ![idx] = "success"]
            /\ idx' = idx + 1
            /\ pc' = "loop"
            /\ UNCHANGED <<attempt_number, since_fail>>
    /\ UNCHANGED <<exit_status, fatal_at, mainVars, summaries, summary, invoked,
                   result, cause, ssh_client, open_sessions>>

\* The body returned True: tenacity returns it, the caller counts it.
CallSucceeds ==
    /\ pc = "retry"
    /\ result = "ok"
    /\ rebooted_count' = rebooted_count + 1
    /\ outcome' = [outcome EXCEPT ![idx] = "success"]
    /\ idx' = idx + 1
    /\ pc' = "loop"
    /\ EndCall
    /\ UNCHANGED <<exit_status, fatal_at, mainVars, summaries, summary, invoked>>

\* Variant: only transient causes are retried; a failure to load the key
\* or to authenticate is reported to the caller at once.
RetryTransientOnly ==
    /\ pc = "retry"
    /\ result = "exc"
    /\ attempt_number < StopAfterAttempt
    /\ IF cause \in {"key", "auth"}
       THEN /\ outcome' = [outcome EXCEPT ![idx] = "failed"]
            /\ idx' = idx + 1
            /\ pc' = "loop"
            /\ UNCHANGED <<attempt_number, since_fail>>
       ELSE /\ \E jitter \in 0..MaxJitter : since_fail' = WaitFixed + jitter
            /\ attempt_number' = attempt_number + 1
            /\ pc' = "call"
            /\ UNCHANGED <<idx, outcome>>
    /\ UNCHANGED <<exit_status, fatal_at, mainVars, rebooted_count, summaries, summary,
                   invoked, result, cause, ssh_client, open_sessions>>

\* Variant: the retry follows at once, without the wait.
RetryWithoutWait ==
    /\ pc = "retry"
    /\ result = "exc"
    /\ attempt_number < StopAfterAttempt
    /\ since_fail' = 0
    /\ attempt_number' = attempt_number + 1
    /\ pc' = "call"
    /\ UNCHANGED <<exit_status, fatal_at, mainVars, loopVars, result, cause, ssh_client, open_sessions>>

\* The body raised and stop_after_attempt(3) is not reached: wait_fixed(10),
\* then the next attempt.
RetrySleep ==
    /\ pc = "retry"
    /\ result = "exc"
    /\ attempt_number < StopAfterAttempt
    /\ \E jitter \in 0..MaxJitter : since_fail' = WaitFixed + jitter
    /\ attempt_number' = attempt_number + 1
    /\ pc' = "call"
    /\ UNCHANGED <<exit_status, fatal_at, mainVars, loopVars, result, cause, ssh_client, open_sessions>>

\* Variant: the counter is incremented in the except clause as well.
RetryExhaustedCounted ==
    /\ pc = "retry"
    /\ result = "exc"
    /\ attempt_number >= StopAfterAttempt
    /\ outcome' = [outcome EXCEPT ![idx] = "failed"]
    /\ rebooted_count' = rebooted_count + 1
    /\ idx' = idx + 1
    /\ pc' = "loop"
    /\ UNCHANGED <<exit_status, fatal_at, mainVars, summaries, summary, invoked, callVars>>

\* Variant: the stop condition lets one more attempt through.
RetryExhaustedOneLate ==
    /\ pc = "retry"
    /\ result = "exc"
    /\ attempt_number >= StopAfterAttempt
    /\ IF attempt_number = StopAfterAttempt
       THEN /\ \E jitter \in 0..MaxJitter : since_fail' = WaitFixed + jitter
            /\ attempt_number' = attempt_number + 1
            /\ pc' = "call"
            /\ UNCHANGED <<idx, outcome>>
       ELSE /\ outcome' = [outcome EXCEPT ![idx] = "failed"]
            /\ idx' = idx + 1
            /\ pc' = "loop"
            /\ UNCHANGED <<attempt_number, since_fail>>
    /\ UNCHANGED <<exit_status, fatal_at, mainVars, rebooted_count, summaries, summary,
                   invoked, result, cause, ssh_client, open_sessions>>

\* Variant: the call is not wrapped in try/except, RetryError reaches main.
RetryExhaustedPropagates ==
    /\ pc = "retry"
    /\ result = "exc"
    /\ attempt_number >= StopAfterAttempt
    /\ outcome' = [outcome EXCEPT ![idx] = "failed"]
    /\ Fatal
    /\ UNCHANGED <<mainVars, idx, rebooted_count, summaries, summary, invoked, callVars>>

\* The body raised on the last attempt: tenacity raises RetryError, which
\* "except Exception" in reboot_notready_nodes logs.
RetryExhausted ==
    /\ pc = "retry"
    /\ result = "exc"
    /\ attempt_number >= StopAfterAttempt
    /\ outcome' = [outcome EXCEPT ![idx] = "failed"]
    /\ idx' = idx + 1
    /\ pc' = "loop"
    /\ EndCall
    /\ UNCHANGED <<exit_status, fatal_at, mainVars, rebooted_count, summaries, summary,
                   invoked>>

\* ----------------------------------------------------------- specifications
Remediate ==
    \/ SkipUnmapped \/ ResolveRaises \/ ResolveOk \/ LogSummary \/ MainCompleted
    \/ AttemptBegin \/ LoadKeyOk \/ LoadKeyFails \/ ConnectOk \/ ConnectFails
    \/ ConnectAuthFails
    \/ ExecCommandFails \/ ExecExitZero \/ ExecExitNonZero \/ Finally
    \/ CallSucceeds \/ RetrySleep \/ RetryExhausted

Startup ==
    \/ ValidateFilesMissing \/ ValidateFilesOk
    \/ LoadNodeVmMapOk \/ LoadNodeVmMapFails
    \/ LoadKubeConfigOk \/ LoadKubeConfigFails
    \/ ListNodeFails
    \/ MainNoNotReady \/ MainCallsReboot

Next ==
    \/ Startup
    \/ GetNotReadyNodesReturns(MainStatuses) \/ GetNotReadyNodesRaises(MainStatuses)
    \/ Remediate

Spec == Init /\ [][Next]_vars

\* The single thread keeps running: every blocking call returns or raises.
FairSpec == Spec /\ WF_vars(Next)

\* get_notready_nodes alone, called on a constructed NodeRebooter whose
\* mapping file held the empty object.
InitList ==
    /\ pc = "list_node"
    /\ exit_status = "running"
    /\ fatal_at = "none"
    /\ node_vm_map = <<>>
    /\ k8s_client = TRUE
    /\ nodes = <<>>
    /\ listed = FALSE
    /\ notready_nodes = <<>>
    /\ idx = 0
    /\ rebooted_count = 0
    /\ attempt_number = 0
    /\ result = "none"
    /\ cause = "none"
    /\ ssh_client = "none"
    /\ open_sessions = 0
    /\ since_fail = 0
    /\ summaries = 0
    /\ summary = <<>>
    /\ outcome = <<>>
    /\ invoked = <<>>

NextList ==
    \/ ListNodeFails
    \/ GetNotReadyNodesReturns(NodeStatuses(MaxConds))
    \/ GetNotReadyNodesRaises(NodeStatuses(MaxConds))

SpecList == InitList /\ [][NextList]_vars

TypeOK ==
    /\ pc \in {"validate", "load_map", "load_kube", "list_node", "listed",
               "loop", "call", "key", "connect", "exec", "finally", "retry",
               "completed", "done"}
    /\ exit_status \in {"running", "success", "failure"}
    /\ node_vm_map \in NodeVmMaps
    /\ k8s_client \in BOOLEAN
    /\ listed \in BOOLEAN
    /\ fatal_at \in {"none", "validate", "load_map", "load_kube", "list_node", "loop"}
    /\ cause \in {"none", "key", "connect", "auth", "exec", "exit_status"}
    /\ ssh_client \in {"none", "unconnected", "connected", "closed"}
    /\ notready_nodes \in SeqsUpTo(Names, MaxNodes)
    /\ idx \in 0..(MaxNodes + 1)
    /\ rebooted_count \in 0..MaxNodes
    /\ attempt_number \in 0..StopAfterAttempt
    /\ result \in {"none", "ok", "exc"}
    /\ open_sessions \in 0..1
    /\ since_fail \in 0..(WaitFixed + MaxJitter)
    /\ summaries \in 0..1

\* ------------------------------------------------------------- properties

Positions == DOMAIN outcome
InBody == pc \in {"key", "connect", "exec", "finally"}
Mapped(i) == notready_nodes[i] \in DOMAIN node_vm_map
Malformed(i) == Mapped(i) /\ ~(Keys \subseteq DOMAIN node_vm_map[notready_nodes[i]])
Succeeded == {i \in Positions : outcome[i] = "success"}

\* C1: when the reset of a list entry has failed on all 3 attempts, the entry
\* is recorded as failed, the success count is left alone, the run is not
\* ended and the loop moves on to the next list entry.
C1_FailureNeverAborts ==
    [][(pc = "retry" /\ result = "exc" /\ invoked[idx] = StopAfterAttempt)
         => /\ outcome'[idx] = "failed"
            /\ rebooted_count' = rebooted_count
            /\ exit_status' = "running"
            /\ pc' = "loop"
            /\ idx' = idx + 1]_vars

\* A failed entry is followed by an entry that was attempted.
C1_Witness ==
    \E i, j \in Positions :
        /\ i < j
        /\ outcome[i] = "failed"
        /\ invoked[j] > 0
        /\ outcome[j] \in {"success", "failed"}

\* C2: the body of reboot_vm_on_esxi is invoked at most 3 times for a list
\* entry, and an invocation after the first one starts at least 10 time
\* units after the failure before it.
C2_BoundedRetryWithDelay ==
    /\ \A i \in Positions : invoked[i] <= StopAfterAttempt
    /\ (InBody /\ invoked[idx] > 1) => since_fail >= WaitFixed

C2_Witness == pc = "key" /\ invoked[idx] = StopAfterAttempt /\ since_fail >= WaitFixed

\* C3: for a list entry whose name is not in the identity map no invocation
\* is made and no session is opened; the entry is skipped and the loop goes on.
C3_UnmappedNeverAttempted ==
    /\ \A i \in Positions :
          ~Mapped(i) => /\ invoked[i] = 0
                        /\ outcome[i] \in {"pending", "skipped"}
                        /\ (i < idx => outcome[i] = "skipped")
    /\ (pc \in {"call", "key", "connect", "exec", "finally", "retry"}) => Mapped(idx)

C3_Witness ==
    \E i, j \in Positions :
        /\ i < j
        /\ ~Mapped(i)
        /\ outcome[i] = "skipped"
        /\ outcome[j] = "success"

\* C4: the summary line reports the number of list entries whose reset
\* succeeded, out of the length of the whole not-ready list.
C4_SummaryCounts ==
    summaries > 0 =>
        summary = <<Cardinality(Succeeded), Len(notready_nodes)>>

C4_Witness ==
    /\ summaries = 1
    /\ \E i, j \in Positions :
          /\ outcome[i] \in {"skipped", "failed"}
          /\ outcome[j] = "success"

\* C5 as stated: a run that ends with the success indicator has logged
\* exactly one summary, whatever the not-ready list was.
C5_Original ==
    (pc = "done" /\ exit_status = "success") => summaries = 1

\* C5 amended: a run that ends with the success indicator has logged exactly
\* one summary, before main returned, when the not-ready list was not empty,
\* and no summary when it was empty.
C5_SummaryThenSuccess ==
    /\ summaries <= 1
    /\ pc = "completed" => summaries = 1
    /\ (pc = "done" /\ exit_status = "success") =>
          summaries = (IF notready_nodes = <<>> THEN 0 ELSE 1)

C5_Witness ==
    /\ pc = "done"
    /\ exit_status = "success"
    /\ summaries = 1
    /\ \E i \in Positions : outcome[i] = "failed"

\* C6: once startup and the node listing have succeeded, the run ends with
\* the success indicator.
C6_SuccessAfterListing ==
    (pc = "done" /\ listed) => exit_status = "success"

HasReadyFalse(n) ==
    \E k \in DOMAIN n.conditions :
        n.conditions[k].type = "Ready" /\ n.conditions[k].status = "False"
Selected == {i \in DOMAIN nodes : HasReadyFalse(nodes[i])}

\* C7: the list get_notready_nodes returns holds, in the order of the API
\* response and once each, the names of exactly the nodes that have a
\* condition of type Ready with status False; conditions of other types and
\* Ready conditions with status True or Unknown do not put a node on it.
C7_ExactlyReadyFalse ==
    pc = "listed" =>
        /\ Len(notready_nodes) = Cardinality(Selected)
        /\ \A i \in Selected :
              notready_nodes[Cardinality({j \in Selected : j <= i})] = nodes[i].name

C7_Witness ==
    /\ pc = "listed"
    /\ Len(notready_nodes) = 1
    /\ \E i, j \in DOMAIN nodes :
          /\ i < j
          /\ nodes[i].conditions = <<[type |-> "Ready", status |-> "Unknown"],
                                     [type |-> "MemoryPressure", status |-> "False"]>>
          /\ nodes[j].conditions = <<[type |-> "MemoryPressure", status |-> "False"],
                                     [type |-> "Ready", status |-> "False"]>>
          /\ notready_nodes = <<nodes[j].name>>

\* C8: a run that ends with the failure indicator has made no invocation of
\* the remote reset.
C8_FailureExitBeforeRemediation ==
    (pc = "done" /\ exit_status = "failure") =>
        \A i \in Positions : invoked[i] = 0

\* C9: a list entry whose map value lacks esxi_host or vmid is skipped: no
\* invocation for it, every entry of the list is processed, the summary is
\* logged and the run ends with the success indicator.
C9_MalformedEntrySoftSkipped ==
    (pc = "done" /\ \E i \in Positions : Malformed(i)) =>
        /\ \A i \in Positions : Malformed(i) => (invoked[i] = 0 /\ outcome[i] = "skipped")
        /\ \A i \in Positions : outcome[i] # "pending"
        /\ summaries = 1
        /\ exit_status = "success"

\* C10: the session of an attempt is closed before the attempt ends, so at
\* most one session is open at a time and none outside an attempt.
C10_SessionClosed ==
    /\ open_sessions <= 1
    /\ pc \notin {"exec", "finally"} => open_sessions = 0
    /\ pc = "retry" => ssh_client \in {"unconnected", "closed"}

C10_Witness ==
    /\ pc = "retry"
    /\ result = "exc"
    /\ ssh_client = "closed"
    /\ invoked[idx] < StopAfterAttempt

\* C11: a run that fails in the identity-map load ends with the failure
\* indicator without having created the Kubernetes client or listed nodes;
\* a run that fails in the client initialisation or in the node listing ends
\* with the failure indicator without any list entry resolved or reset.
C11_FatalBeforeLaterStages ==
    /\ fatal_at # "none" => (pc = "done" /\ exit_status = "failure")
    /\ fatal_at = "load_map" => (~k8s_client /\ ~listed /\ nodes = <<>>)
    /\ fatal_at \in {"load_map", "load_kube", "list_node"} =>
          /\ idx = 0
          /\ outcome = <<>>
          /\ invoked = <<>>
          /\ ssh_client = "none"
          /\ summaries = 0

C11_Witness == fatal_at = "load_map" /\ pc = "done" /\ exit_status = "failure"

ReadyEntries(n) == {k \in DOMAIN n.conditions : n.conditions[k].type = "Ready"}
FirstReady(n) == CHOOSE k \in ReadyEntries(n) : \A m \in ReadyEntries(n) : k <= m
InResult(i) == \E k \in DOMAIN notready_nodes : notready_nodes[k] = nodes[i].name
SeveralReady == {i \in DOMAIN nodes : Cardinality(ReadyEntries(nodes[i])) > 1}

\* C12 as stated: a node with more than one Ready entry is on the returned
\* list iff its first Ready entry has status False.
C12_Original ==
    pc = "listed" =>
        \A i \in SeveralReady :
            InResult(i) <=> nodes[i].conditions[FirstReady(nodes[i])].status = "False"

\* C12 amended: a node with more than one Ready entry is on the returned
\* list iff at least one of its Ready entries has status False; a Ready
\* entry with another status does not end the scan of the node.
C12_AnyReadyFalse ==
    pc = "listed" =>
        \A i \in SeveralReady :
            InResult(i) <=>
                \E k \in ReadyEntries(nodes[i]) : nodes[i].conditions[k].status = "False"

C12_Witness ==
    /\ pc = "listed"
    /\ \E i \in SeveralReady :
          /\ nodes[i].conditions[FirstReady(nodes[i])].status = "True"
          /\ InResult(i)

\* C13: a node without a Ready condition, its condition list being empty or
\* absent included, is left off the returned list, and get_notready_nodes
\* does not end in a fatal listing error because of it.
C13_NoReadyConditionOmitted ==
    /\ pc = "listed" =>
          \A i \in DOMAIN nodes : ReadyEntries(nodes[i]) = {} => ~InResult(i)
    /\ fatal_at = "list_node" =>
          \A i \in DOMAIN nodes : ~nodes[i].conditions_is_none

\* C14: whatever made an invocation fail, another invocation of the same
\* list entry follows while fewer than 3 have been made; after the 3rd
\* failed invocation the failure is recorded for the entry and the loop goes
\* on with the next entry.
C14_RetryWhateverTheCause ==
    [][/\ (pc = "retry" /\ result = "exc") =>
            IF invoked[idx] < StopAfterAttempt
            THEN /\ pc' = "call"
                 /\ idx' = idx
                 /\ outcome' = outcome
                 /\ exit_status' = "running"
            ELSE /\ pc' = "loop"
                 /\ idx' = idx + 1
                 /\ outcome' = [outcome EXCEPT ![idx] = "failed"]
                 /\ exit_status' = "running"
       /\ pc = "call" => (pc' = "key" /\ invoked'[idx] = invoked[idx] + 1)]_vars

\* A second invocation is about to start after the key could not be loaded.
C14_Witness ==
    /\ pc = "call"
    /\ cause = "key"
    /\ invoked[idx] = 1
    /\ attempt_number = 2

InCall == pc \in {"call", "key", "connect", "exec", "finally", "retry"}

\* C15: list entries are handled one at a time in list order: while entry
\* idx is handled, every earlier entry is finished with all its invocations
\* and no later entry has been resolved or invoked; the loop moves from an
\* entry to the next one only between invocations, and at most one
\* invocation holds a session.
C15_OneAtATimeInOrder ==
    /\ [](/\ \A i \in Positions :
               /\ i < idx => outcome[i] \in {"skipped", "success", "failed"}
               /\ i > idx => (outcome[i] = "pending" /\ invoked[i] = 0)
               /\ (i = idx /\ InCall) => outcome[i] = "pending"
          /\ open_sessions <= 1
          /\ ~InCall => open_sessions = 0)
    /\ [][idx' # idx => (idx' = idx + 1 /\ pc \in {"listed", "loop", "retry"}
                         /\ pc' = "loop")]_vars

C15_Witness ==
    /\ idx = 2
    /\ pc = "exec"
    /\ outcome[1] = "failed"
    /\ invoked[1] = StopAfterAttempt
    /\ invoked[2] = 1

\* C16: every run ends: sys.exit(1) after a fatal error, or the return from
\* main after the loop has gone over the whole not-ready list; by then a
\* mapped entry has had at most 3 invocations and an unmapped entry none.
C16_Terminates ==
    <>[](/\ pc = "done"
         /\ exit_status \in {"success", "failure"}
         /\ exit_status = "success" =>
               \A i \in Positions : outcome[i] \in {"skipped", "success", "failed"}
         /\ \A i \in Positions :
               invoked[i] <= (IF Mapped(i) THEN StopAfterAttempt ELSE 0))

C16_Witness ==
    /\ pc = "done"
    /\ exit_status = "success"
    /\ \E i, j \in Positions :
          /\ Mapped(i) /\ invoked[i] = StopAfterAttempt
          /\ ~Mapped(j) /\ invoked[j] = 0 /\ outcome[j] = "skipped"

MappedPositions == {i \in Positions : Mapped(i)}
ResetDone(i) == outcome[i] = "success" \/ (i = idx /\ InCall /\ result = "ok")

\* C17: once an invocation for a list entry has returned success, no further
\* invocation is made for that entry, so an entry causes at most one
\* successful reset, and the successful resets of a run are never more than
\* the mapped entries of the list.
C17_AtMostOneSuccessfulReset ==
    /\ [](/\ Cardinality({i \in Positions : ResetDone(i)}) <= Cardinality(MappedPositions)
          /\ \A i \in Positions : ResetDone(i) => (Mapped(i) /\ invoked[i] >= 1))
    /\ [][\A i \in Positions : ResetDone(i) => invoked'[i] = invoked[i]]_vars

\* An entry succeeded on its second invocation and the run went on to the end.
C17_Witness ==
    /\ pc = "done"
    /\ \E i \in Positions : outcome[i] = "success" /\ invoked[i] = 2

Processed == {i \in Positions : i < idx}

\* C18: rebooted_count is at every point the number of processed list
\* entries whose reset succeeded; it never goes down, only a successful
\* reset changes it (by one), and 0 <= rebooted_count <= processed mapped
\* entries <= length of the not-ready list.
C18_CounterTracksSuccesses ==
    /\ [](/\ rebooted_count = Cardinality({i \in Processed : outcome[i] = "success"})
          /\ 0 <= rebooted_count
          /\ rebooted_count <= Cardinality(Processed \cap MappedPositions)
          /\ Cardinality(Processed \cap MappedPositions) <= Len(notready_nodes))
    /\ [][rebooted_count' # rebooted_count =>
            /\ rebooted_count' = rebooted_count + 1
            /\ pc = "retry"
            /\ result = "ok"
            /\ outcome[idx] = "pending"
            /\ outcome'[idx] = "success"]_vars

C18_Witness ==
    /\ rebooted_count = 1
    /\ pc = "loop"
    /\ \E i, j \in Processed : outcome[i] = "failed" /\ outcome[j] = "success"

====
